---------------------------- MODULE Spec2Model ----------------------------
(***************************************************************************)
(* Model of src/ref_list.rs: RefList<T>, EntryRef<T>, Entry<T> and         *)
(* DeleteTransaction.                                                      *)
(*                                                                         *)
(* An Rc<RefCell<Entry<T>>> allocation is a "cell", identified by the      *)
(* number of the push that created it (1, 2, ...).  `cells[e]` holds the   *)
(* Entry (val, index), the number of EntryRef clones held outside the      *)
(* list (links) and the RefCell borrow state (readers, writer).            *)
(*                                                                         *)
(* usize values are modelled by integers; a value that wrapped below zero  *)
(* (2^64 + v with v < 0) is represented by v itself, and ult/wrapping_sub  *)
(* compare and subtract such representatives as the unsigned values do.    *)
(***************************************************************************)
EXTENDS Integers, Sequences, FiniteSets, TLC

\* ---------------------------------------------------------------- bounds
\* pushes over the life of the list (from_slice included)
MaxEntries == 4
\* length of the slice given to from_slice
MaxSlice == 2
\* indices queued in one deletion batch
MaxBatch == 3
\* EntryRef clones of one entry held outside the list
MaxLinks == 2
\* read()/write() views outstanding at one time, over all entries
MaxViews == 1

SliceValues == {10, 20}     \* members of the slice given to from_slice
PushValues  == {30}         \* values given to push

VARIABLES
    items,            \* RefList.items: sequence of cells
    cells,            \* the Rc<RefCell<Entry>> allocations, by push number
    tx,               \* the DeleteTransaction borrowing the list, if any
    overflow_checks,  \* build profile: arithmetic overflow panics (debug)
    status,           \* "ok", or "panicked" once an operation has faulted
    pre,              \* items and origins when the last list operation began
    last              \* the last list operation: name, arguments, outcome

vars == <<items, cells, tx, overflow_checks, status, pre, last>>

\* ------------------------------------------------------------ EntryOrigin
Index(v) == [tag |-> "Index", v |-> v]
Detached == [tag |-> "Detached", v |-> 0]

None    == <<>>
Some(v) == <<v>>

\* Entry::new
Entry_new_off_by_one(t, index) ==
    [val |-> t, index |-> Index(index + 1), links |-> 0, readers |-> 0, writer |-> FALSE]

Entry_new(t, index) ==
    [val |-> t, index |-> Index(index), links |-> 0, readers |-> 0, writer |-> FALSE]

\* Entry::order / EntryRef::order
order(entry) ==
    IF entry.index.tag = "Detached" THEN None ELSE Some(entry.index.v)

\* Rc::strong_count of the allocation e: the EntryRef clones callers hold and
\* the clone each slot of the list holds
strong_count(its, cs, e) ==
    cs[e].links + Cardinality({i \in DOMAIN its : its[i] = e})

\* EntryRef::link_count, called on a handle of e
link_count(its, cs, e) == strong_count(its, cs, e) - 1

\* RefCell borrow state: a borrow_mut() panics when any view is outstanding
Borrowed(entry) == entry.readers > 0 \/ entry.writer

\* unsigned `a < b` on representatives
ult(a, b) ==
    IF a < 0 /\ b >= 0 THEN FALSE
    ELSE IF a >= 0 /\ b < 0 THEN TRUE
    ELSE a < b

\* usize subtraction without overflow check (release profile)
wrapping_sub(a, b) == a - b

\* `a - b` underflows usize
underflows(a, b) == a >= 0 /\ b > a

\* Vec::swap_remove: the last element takes the place of the removed one
Vec_swap_remove(s, idx) ==
    IF idx + 1 = Len(s) THEN SubSeq(s, 1, Len(s) - 1)
    ELSE [SubSeq(s, 1, Len(s) - 1) EXCEPT ![idx + 1] = s[Len(s)]]

\* Vec::remove(idx), idx 0-based and in range
Vec_remove(s, idx) == SubSeq(s, 1, idx) \o SubSeq(s, idx + 2, Len(s))


\* ------------------------------------------------------------ done_delete
\* indices.iter().take_while(|x| **x < ord).count()
RECURSIVE take_while_count_reversed(_, _)
take_while_count_reversed(indices, ord) ==
    IF indices = <<>> THEN 0
    ELSE IF ult(ord, Head(indices))
         THEN 1 + take_while_count_reversed(Tail(indices), ord)
         ELSE 0

RECURSIVE take_while_count(_, _)
take_while_count(indices, ord) ==
    IF indices = <<>> THEN 0
    ELSE IF ult(Head(indices), ord)
         THEN 1 + take_while_count(Tail(indices), ord)
         ELSE 0

\* The first loop of done_delete over the batch still to process: each index
\* is removed from the list as it is now, then its entry is marked Detached.
\* Vec::remove panics on idx >= len ("bounds"); write() panics when a view is
\* outstanding on the removed entry ("borrow"), after the slot is gone.
RECURSIVE remove_loop(_, _, _)
remove_loop(its, cs, indices) ==
    IF indices = <<>> THEN [items |-> its, cells |-> cs, fault |-> "none"]
    ELSE LET idx == Head(indices) IN
         IF ~ult(idx, Len(its))
         THEN [items |-> its, cells |-> cs, fault |-> "bounds"]
         ELSE LET detached == its[idx + 1]
                  rest     == Vec_remove(its, idx)
              IN  IF Borrowed(cs[detached])
                  THEN [items |-> rest, cells |-> cs, fault |-> "borrow"]
                  ELSE remove_loop(rest,
                                   [cs EXCEPT ![detached].index = Detached],
                                   Tail(indices))

\* The second loop of done_delete from position `index` (0-based) on: every
\* entry left in the list is borrowed mutably and its index lowered by
\* total_less.  order().expect(..) and unreachable!() panic on a Detached
\* entry ("expect"; with an empty batch take_while never calls order() and the
\* match arm panics instead).  The subtraction panics on underflow when the
\* build checks overflow ("overflow") and wraps otherwise.
RECURSIVE renumber_loop(_, _, _, _)
renumber_loop(its, cs, indices, index) ==
    IF index >= Len(its) THEN [items |-> its, cells |-> cs, fault |-> "none"]
    ELSE LET e          == its[index + 1]
             idx        == cs[e].index.v
             total_less == take_while_count(indices, idx)
         IN  IF Borrowed(cs[e])
             THEN [items |-> its, cells |-> cs, fault |-> "borrow"]
             ELSE IF cs[e].index.tag = "Detached"
             THEN [items |-> its, cells |-> cs, fault |-> "expect"]
             ELSE IF underflows(idx, total_less) /\ overflow_checks
             THEN [items |-> its, cells |-> cs, fault |-> "overflow"]
             ELSE renumber_loop(its,
                      [cs EXCEPT ![e].index = Index(wrapping_sub(idx, total_less))],
                      indices, index + 1)

\* RefList::done_delete: the list and the cells it leaves, and the fault that
\* stopped it, if any
done_delete(its, cs, indices) ==
    LET removed == remove_loop(its, cs, indices) IN
    IF removed.fault # "none" THEN removed
    ELSE renumber_loop(removed.items, removed.cells, indices, 0)


\* ------------------------------------------------------------ bookkeeping
\* The indices a caller passes: every index in range and len() itself, which
\* stands for all indices out of range (Vec::get and Vec::remove treat every
\* idx >= len alike)
Indices == 0..Len(items)

\* All batches a caller can queue: sequences of at most MaxBatch indices
Batches == UNION {[1..n -> Indices] : n \in 0..MaxBatch}
Slices  == UNION {[1..n -> SliceValues] : n \in 0..MaxSlice}

\* views outstanding over all entries
RECURSIVE views(_)
views(cs) ==
    IF cs = <<>> THEN 0
    ELSE Head(cs).readers + (IF Head(cs).writer THEN 1 ELSE 0) + views(Tail(cs))

origins(cs) == [e \in DOMAIN cs |-> cs[e].index]

any_view(cs) == \E e \in DOMAIN cs : Borrowed(cs[e])

Range(s) == {s[i] : i \in DOMAIN s}

snapshot == [items |-> items, index |-> origins(cells)]

op_record(name, indices, val, fault, ret) ==
    [op |-> name, indices |-> indices, val |-> val, fault |-> fault,
     ret |-> ret, views |-> any_view(cells),
     lent |-> \E e \in Range(items) : Borrowed(cells[e])]

no_tx == [open |-> FALSE, deleted |-> <<>>]

after(fault) == IF fault = "none" THEN "ok" ELSE "panicked"

\* ------------------------------------------------------------ construction
\* RefList::from_slice: one push per member, the returned handles dropped;
\* the empty slice gives RefList::new()
from_slice(list) ==
    [items |-> [i \in 1..Len(list) |-> i],
     cells |-> [i \in 1..Len(list) |-> Entry_new(list[i], i - 1)]]

Init ==
    /\ \E list \in Slices :
          /\ items = from_slice(list).items
          /\ cells = from_slice(list).cells
    /\ tx = no_tx
    /\ overflow_checks \in BOOLEAN
    /\ status = "ok"
    /\ pre = [items |-> <<>>, index |-> <<>>]
    /\ last = [op |-> "new", indices |-> <<>>, val |-> 0, fault |-> "none",
               ret |-> 0, views |-> FALSE, lent |-> FALSE]

\* ------------------------------------------------------------ RefList
\* RefList::push: the caller keeps the returned EntryRef (one link)
push_recycling(t) ==
    /\ status = "ok" /\ ~tx.open
    /\ Len(cells) < MaxEntries
    /\ LET idx  == Len(items)
           free == {e \in DOMAIN cells : cells[e].index = Detached}
           val  == IF free = {} THEN Len(cells) + 1 ELSE CHOOSE e \in free : TRUE
       IN  /\ cells' = IF free = {}
                       THEN Append(cells, [Entry_new(t, idx) EXCEPT !.links = 1])
                       ELSE [cells EXCEPT ![val] = [Entry_new(t, idx) EXCEPT !.links = cells[val].links + 1]]
           /\ items' = Append(items, val)
           /\ last' = op_record("push", <<>>, t, "none", val)
    /\ pre' = snapshot
    /\ UNCHANGED <<tx, overflow_checks, status>>

push(t) ==
    /\ status = "ok" /\ ~tx.open
    /\ Len(cells) < MaxEntries
    /\ LET idx == Len(items)
           val == Len(cells) + 1
       IN  /\ cells' = Append(cells, [Entry_new(t, idx) EXCEPT !.links = 1])
           /\ items' = Append(items, val)
           /\ last' = op_record("push", <<>>, t, "none", val)
    /\ pre' = snapshot
    /\ UNCHANGED <<tx, overflow_checks, status>>

\* What a commit of `indices` through operation `name` does to the state
commit(name, indices) ==
    LET r == done_delete(items, cells, indices) IN
    /\ items' = r.items
    /\ cells' = r.cells
    /\ status' = after(r.fault)
    /\ last' = op_record(name, indices, 0, r.fault, 0)
    /\ pre' = snapshot
    /\ tx' = no_tx
    /\ UNCHANGED overflow_checks

\* RefList::delete
delete(indices) ==
    /\ status = "ok" /\ ~tx.open
    /\ commit("delete", indices)

\* RefList::delete_one
delete_one(index) ==
    /\ status = "ok" /\ ~tx.open
    /\ commit("delete_one", <<index>>)

\* RefList::begin_delete
begin_delete ==
    /\ status = "ok" /\ ~tx.open
    /\ tx' = [open |-> TRUE, deleted |-> <<>>]
    /\ pre' = snapshot
    /\ last' = op_record("begin_delete", <<>>, 0, "none", 0)
    /\ UNCHANGED <<items, cells, overflow_checks, status>>

\* RefList::get
get_unchecked(idx) ==
    /\ status = "ok" /\ ~tx.open
    /\ IF idx < Len(items)
       THEN /\ cells[items[idx + 1]].links < MaxLinks
            /\ cells' = [cells EXCEPT ![items[idx + 1]].links = @ + 1]
            /\ status' = "ok"
            /\ last' = op_record("get", <<idx>>, 0, "none", items[idx + 1])
       ELSE /\ cells' = cells
            /\ status' = "panicked"
            /\ last' = op_record("get", <<idx>>, 0, "bounds", 0)
    /\ UNCHANGED <<items, tx, overflow_checks, pre>>

get(idx) ==
    /\ status = "ok" /\ ~tx.open
    /\ IF idx < Len(items)
       THEN /\ cells[items[idx + 1]].links < MaxLinks
            /\ cells' = [cells EXCEPT ![items[idx + 1]].links = @ + 1]
            /\ last' = op_record("get", <<idx>>, 0, "none", items[idx + 1])
       ELSE /\ cells' = cells
            /\ last' = op_record("get", <<idx>>, 0, "none", 0)
    /\ UNCHANGED <<items, tx, overflow_checks, status, pre>>

\* RefList::clone_ref
clone_ref(idx) ==
    /\ status = "ok" /\ ~tx.open
    /\ IF idx < Len(items)
       THEN /\ cells[items[idx + 1]].links < MaxLinks
            /\ cells' = [cells EXCEPT ![items[idx + 1]].links = @ + 1]
            /\ status' = "ok"
            /\ last' = op_record("clone_ref", <<idx>>, 0, "none", items[idx + 1])
       ELSE /\ cells' = cells
            /\ status' = "panicked"
            /\ last' = op_record("clone_ref", <<idx>>, 0, "bounds", 0)
    /\ UNCHANGED <<items, tx, overflow_checks, pre>>

\* ------------------------------------------------------------ DeleteTransaction
\* DeleteTransaction::push
DeleteTransaction_push(idx) ==
    /\ status = "ok" /\ tx.open
    /\ Len(tx.deleted) < MaxBatch
    /\ tx' = [tx EXCEPT !.deleted = Append(@, idx)]
    /\ UNCHANGED <<items, cells, overflow_checks, status, pre, last>>

\* DeleteTransaction::done
done ==
    /\ status = "ok" /\ tx.open
    /\ commit("done", tx.deleted)

\* A DeleteTransaction dropped without done(): the struct has no Drop
\* implementation, the list borrow and the queued indices are released
drop_transaction_commits ==
    /\ status = "ok" /\ tx.open
    /\ commit("drop", tx.deleted)

drop_transaction ==
    /\ status = "ok" /\ tx.open
    /\ tx' = no_tx
    /\ last' = op_record("drop", tx.deleted, 0, "none", 0)
    /\ UNCHANGED <<items, cells, overflow_checks, status, pre>>

\* ------------------------------------------------------------ EntryRef
\* EntryRef::clone of a handle the caller holds
clone(e) ==
    /\ status = "ok"
    /\ cells[e].links >= 1 /\ cells[e].links < MaxLinks
    /\ cells' = [cells EXCEPT ![e].links = @ + 1]
    /\ UNCHANGED <<items, tx, overflow_checks, status, pre, last>>

\* An EntryRef the caller holds goes out of scope; a handle that a view
\* borrows outlives the view
drop_handle(e) ==
    /\ status = "ok"
    /\ cells[e].links >= 1
    /\ cells[e].links > 1 \/ ~Borrowed(cells[e])
    /\ cells' = [cells EXCEPT ![e].links = @ - 1]
    /\ UNCHANGED <<items, tx, overflow_checks, status, pre, last>>

\* EntryRef::read: RefCell::borrow panics while a write view is outstanding
read(e) ==
    /\ status = "ok"
    /\ cells[e].links >= 1
    /\ IF cells[e].writer
       THEN /\ status' = "panicked"
            /\ last' = op_record("read", <<>>, 0, "borrow", e)
            /\ UNCHANGED cells
       ELSE /\ views(cells) < MaxViews
            /\ cells' = [cells EXCEPT ![e].readers = @ + 1]
            /\ UNCHANGED <<status, last>>
    /\ UNCHANGED <<items, tx, overflow_checks, pre>>

\* EntryRef::write: RefCell::borrow_mut panics while any view is outstanding
write(e) ==
    /\ status = "ok"
    /\ cells[e].links >= 1
    /\ IF Borrowed(cells[e])
       THEN /\ status' = "panicked"
            /\ last' = op_record("write", <<>>, 0, "borrow", e)
            /\ UNCHANGED cells
       ELSE /\ views(cells) < MaxViews
            /\ cells' = [cells EXCEPT ![e].writer = TRUE]
            /\ UNCHANGED <<status, last>>
    /\ UNCHANGED <<items, tx, overflow_checks, pre>>

\* The Ref returned by read() is dropped
release_read(e) ==
    /\ status = "ok"
    /\ cells[e].readers >= 1
    /\ cells' = [cells EXCEPT ![e].readers = @ - 1]
    /\ UNCHANGED <<items, tx, overflow_checks, status, pre, last>>

\* The RefMut returned by write() is dropped
release_write(e) ==
    /\ status = "ok"
    /\ cells[e].writer
    /\ cells' = [cells EXCEPT ![e].writer = FALSE]
    /\ UNCHANGED <<items, tx, overflow_checks, status, pre, last>>

\* ------------------------------------------------------------ specifications
\* The list and its transactions: every operation that changes the list
Next ==
    \/ \E t \in PushValues : push(t)
    \/ \E indices \in Batches : delete(indices)
    \/ \E index \in Indices : delete_one(index)
    \/ begin_delete
    \/ \E idx \in Indices : DeleteTransaction_push(idx)
    \/ done
    \/ drop_transaction

Spec == Init /\ [][Next]_vars

\* Callers that delete through transactions only.  delete(indices) and
\* delete_one(index) hand done_delete the batch that done() hands it, so the
\* lists reached are those of Spec.
NextTx ==
    \/ \E t \in PushValues : push(t)
    \/ begin_delete
    \/ \E idx \in Indices : DeleteTransaction_push(idx)
    \/ done
    \/ drop_transaction

SpecTx == Init /\ [][NextTx]_vars

\* Callers that push and delete one index at a time
NextSingle ==
    \/ \E t \in PushValues : push(t)
    \/ \E index \in Indices : delete_one(index)
    \/ begin_delete
    \/ \E idx \in Indices : tx.deleted = <<>> /\ DeleteTransaction_push(idx)
    \/ tx.deleted # <<>> /\ done

SpecSingle == Init /\ [][NextSingle]_vars

\* Callers that share the entries of a list built by from_slice: they fetch
\* and clone handles, take and release views, and delete
NextShare ==
    \/ \E indices \in Batches : delete(indices)
    \/ \E index \in Indices : delete_one(index)
    \/ begin_delete
    \/ \E idx \in Indices : DeleteTransaction_push(idx)
    \/ done
    \/ drop_transaction
    \/ \E idx \in Indices : get(idx)
    \/ \E idx \in Indices : clone_ref(idx)
    \/ \E e \in DOMAIN cells : clone(e)
    \/ \E e \in DOMAIN cells : drop_handle(e)
    \/ \E e \in DOMAIN cells : read(e)
    \/ \E e \in DOMAIN cells : write(e)
    \/ \E e \in DOMAIN cells : release_read(e)
    \/ \E e \in DOMAIN cells : release_write(e)

SpecShare == Init /\ [][NextShare]_vars

\* Callers that fetch entries by position, by copy (get) or while keeping
\* the list's entry in place (clone_ref), between single deletions
NextGet ==
    \/ \E index \in Indices : delete_one(index)
    \/ \E idx \in Indices : get(idx)
    \/ \E idx \in Indices : clone_ref(idx)
    \/ \E e \in DOMAIN cells : clone(e)
    \/ \E e \in DOMAIN cells : drop_handle(e)

SpecGet == Init /\ [][NextGet]_vars


\* ------------------------------------------------------------ properties
Commits == {"delete", "delete_one", "done"}

\* the last operation was a commit that ran to completion
committed == last.op \in Commits /\ last.fault = "none"

\* the batch of the last commit as a set of indices
D == Range(last.indices)

\* the entries in the list when the last operation began
before == Range(pre.items)

\* the order() an entry reported when the last operation began
was(e) == pre.index[e].v

\* each entry of the list reported its position when the last operation began
pre_ordered == \A i \in DOMAIN pre.items : pre.index[pre.items[i]] = Index(i - 1)

\* every index of the batch is in range for the list of `its`
in_range(its, indices) == \A k \in DOMAIN indices : indices[k] < Len(its)

\* q queues the indices of p in another order
permutation(p, q) ==
    /\ Len(p) = Len(q)
    /\ \A v \in Range(p) \cup Range(q) :
          Cardinality({k \in DOMAIN p : p[k] = v}) = Cardinality({k \in DOMAIN q : q[k] = v})

\* the entries a caller can observe: those it holds a handle of and those it
\* can fetch from the list
held(e) == cells[e].links >= 1
observable == {e \in DOMAIN cells : held(e)} \cup Range(items)

\* no index is queued twice
distinct(indices) == Cardinality(Range(indices)) = Len(indices)

\* what a caller can see of a commit's outcome: the list, the order() of every
\* handle it can observe, and whether the commit faulted
outcome(indices) ==
    LET r == done_delete(items, cells, indices)
    IN  [items |-> r.items,
         index |-> [e \in observable |-> r.cells[e].index],
         fault |-> r.fault]

\* C1: between operations, the handle at position i of the list reports
\* order() == Some(i), for every i in 0..len()
C1_ListOrder ==
    status = "ok" =>
        \A i \in DOMAIN items : order(cells[items[i]]) = Some(i - 1)

\* C2: after a committed batch D of original indices, every handle whose
\* original index o was not in D reports Some(o - |{d in D : d < o}|)
C2_Renumbering ==
    (committed /\ pre_ordered /\ distinct(last.indices)) =>
        \A e \in before \cap observable :
            was(e) \notin D =>
                order(cells[e]) = Some(was(e) - Cardinality({d \in D : d < was(e)}))

\* C3: after a committed batch D, the entries removed from the list and
\* reporting None are exactly those whose original index was in D
C3_RemovedExactlyD ==
    (committed /\ pre_ordered /\ distinct(last.indices)) =>
        \A e \in before \cap observable :
            (e \notin Range(items) /\ order(cells[e]) = None) <=> was(e) \in D

\* C4: two batches queuing the same in-range indices in different orders
\* leave, when both commits complete, the same list, the same len() and the
\* same order() on every handle
C4_OrderIndependent ==
    (status = "ok" /\ ~tx.open) =>
        \A p, q \in Batches :
            (in_range(items, p) /\ permutation(p, q)
                /\ outcome(p).fault = "none" /\ outcome(q).fault = "none")
                => outcome(p) = outcome(q)

\* C5: a batch that queues one of its indices a second time leaves, when
\* both commits complete, the same list, len() and order() as the batch that
\* queues it once
C5_DuplicateIdempotent ==
    (status = "ok" /\ ~tx.open) =>
        \A p \in Batches : \A k \in DOMAIN p :
            (in_range(items, p) /\ Len(p) < MaxBatch
                /\ outcome(p).fault = "none"
                /\ outcome(Append(p, p[k])).fault = "none")
                => outcome(Append(p, p[k])) = outcome(p)

\* C6: with pushes and single-index deletions only, deleting index i < len()
\* (by delete_one or by a one-index transaction) completes, detaches the
\* handle formerly at i, leaves each handle formerly at j < i at Some(j),
\* moves each handle formerly at j > i to Some(j - 1) and position j - 1, and
\* shortens the list by one
C6_SingleDelete ==
    (last.op \in {"delete_one", "done"} /\ Len(last.indices) = 1
        /\ last.indices[1] < Len(pre.items)) =>
        LET i == last.indices[1] IN
        /\ last.fault = "none"
        /\ Len(items) = Len(pre.items) - 1
        /\ order(cells[pre.items[i + 1]]) = None
        /\ \A j \in 0..(Len(pre.items) - 1) :
              /\ j < i => /\ order(cells[pre.items[j + 1]]) = Some(j)
                          /\ items[j + 1] = pre.items[j + 1]
              /\ j > i => /\ order(cells[pre.items[j + 1]]) = Some(j - 1)
                          /\ items[j] = pre.items[j + 1]

\* C6 witness: the one-index transaction of tests::delete, index 1 of three
C6_Witness ==
    /\ last.op = "done" /\ last.indices = <<1>> /\ last.fault = "none"
    /\ Len(pre.items) = 3 /\ Len(items) = 2

\* C7: push appends at the end and returns a handle whose order() is
\* Some(len() before the push) and whose value is the pushed one, len() grows
\* by one and no other handle's order() changes; with no deletion so far the
\* i-th pushed handle reports Some(i)
C7_Push ==
    /\ last.op = "push" =>
          /\ last.ret \notin DOMAIN pre.index
          /\ items = Append(pre.items, last.ret)
          /\ Len(items) = Len(pre.items) + 1
          /\ order(cells[last.ret]) = Some(Len(pre.items))
          /\ cells[last.ret].val = last.val
          /\ \A e \in DOMAIN pre.index : cells[e].index = pre.index[e]
    /\ Len(items) = Len(cells) =>
          \A i \in DOMAIN cells : order(cells[i]) = Some(i - 1) /\ items[i] = i

\* C7 witness: a push onto a list that a deletion has shortened
C7_Witness ==
    /\ last.op = "push"
    /\ Len(pre.items) >= 1
    /\ \E e \in DOMAIN pre.index : pre.index[e] = Detached

\* C8: a transaction dropped without done() leaves len(), the list and every
\* handle's order() as they were at begin_delete()
C8_DropNoEffect ==
    last.op = "drop" =>
        /\ items = pre.items
        /\ origins(cells) = pre.index
        /\ ~tx.open

\* C8 witness: a dropped transaction that had queued two indices in range
C8_Witness ==
    /\ last.op = "drop"
    /\ Len(last.indices) >= 2
    /\ in_range(items, last.indices)

\* C9: a commit that faults on an out-of-range index of a batch without
\* repeated indices leaves len(), the list and every handle's order() as
\* they were before the commit
C9_FaultAtomic ==
    (last.op \in Commits /\ last.fault # "none"
        /\ distinct(last.indices) /\ ~in_range(pre.items, last.indices)) =>
        /\ items = pre.items
        /\ origins(cells) = pre.index

\* C10: with no view outstanding, a commit of a batch without repeated
\* indices faults if and only if some queued index is out of range for the
\* list as it was when the batch started
C10_FaultIffOutOfRange ==
    (last.op \in Commits /\ ~last.views /\ distinct(last.indices)) =>
        (last.fault # "none" <=> ~in_range(pre.items, last.indices))

\* C11: for every entry a caller holds a handle of, in the list or detached,
\* link_count() equals the number of handle clones held outside the list
C11_LinkCount ==
    \A e \in DOMAIN cells :
        held(e) => link_count(items, cells, e) = cells[e].links

\* C12: an entry that reports order() == None reports None in every later
\* state, whatever is pushed or deleted afterwards; all handles of an entry
\* read the one Entry, so they report None together
C12_DetachedForever ==
    [][\A e \in DOMAIN cells :
          order(cells[e]) = None => /\ e \in DOMAIN cells'
                                    /\ order(cells'[e]) = None
                                    /\ e \notin Range(items')]_vars

\* C12 witness: a handle still held of an entry that an earlier commit
\* detached, after a later deletion has completed
C12_Witness ==
    /\ committed /\ last.indices # <<>>
    /\ \E e \in DOMAIN pre.index :
          pre.index[e] = Detached /\ held(e) /\ order(cells[e]) = None

\* C13: get(idx) never faults; it returns None exactly when idx >= len() and
\* otherwise a clone of the handle stored at position idx.  from_slice(values)
\* gives a list of the slice's length whose i-th handle has order() Some(i)
\* and value values[i], and so has a list not deleted from since
C13_Get ==
    /\ last.op = "get" =>
          LET idx == last.indices[1] IN
          /\ status = "ok" /\ last.fault = "none"
          /\ last.ret = 0 <=> idx >= Len(items)
          /\ idx < Len(items) => last.ret = items[idx + 1]
    /\ \A list \in Slices :
          LET l == from_slice(list) IN
          /\ Len(l.items) = Len(list)
          /\ \A i \in DOMAIN list :
                /\ order(l.cells[l.items[i]]) = Some(i - 1)
                /\ l.cells[l.items[i]].val = list[i]
    /\ (last.op = "get" /\ Len(items) = Len(cells) /\ last.ret # 0) =>
          order(cells[last.ret]) = Some(last.indices[1])

\* C13 witness: from_slice(&[10, 20]), then get(1) returns the handle of
\* order Some(1) and value 20, and get(2) would be out of range
C13_Witness ==
    /\ last.op = "get" /\ last.indices = <<1>> /\ last.ret = 2
    /\ Len(items) = 2 /\ Len(cells) = 2
    /\ cells[1].val = 10 /\ cells[2].val = 20
    /\ order(cells[2]) = Some(1)

\* C14: with no view outstanding, a commit of a batch that queues every index
\* 0..len()-1 of a list of length n >= 1 once, in any order, completes, leaves
\* len() == 0 and leaves every handle of the list at order() == None
C14_DeleteAll ==
    (last.op \in Commits /\ ~last.views /\ Len(pre.items) >= 1 /\ pre_ordered
        /\ distinct(last.indices)
        /\ D = 0..(Len(pre.items) - 1)) =>
        /\ last.fault = "none"
        /\ Len(items) = 0
        /\ \A e \in before : order(cells[e]) = None

\* C15: after a commit that completes, the list is the list as it was before
\* the commit with the removed entries left out: the survivors keep their
\* relative order and len() is their number
C15_SurvivorOrder ==
    committed =>
        /\ items = SelectSeq(pre.items, LAMBDA e : order(cells[e]) # None)
        /\ Len(items) = Cardinality(before \ {e \in before : order(cells[e]) = None})

\* C15 witness: a transaction that removed the second and the fourth of four
\* entries, queued out of order, and left the first and the third
C15_Witness ==
    /\ committed /\ last.op = "done" /\ last.indices = <<3, 1>>
    /\ Len(pre.items) = 4
    /\ items = <<pre.items[1], pre.items[3]>>

\* the list of `its` holds each entry in at most one slot, and an entry a
\* caller can observe is Detached exactly when it is not in the list
well_formed(its, cs) ==
    /\ \A i, j \in DOMAIN its : its[i] = its[j] => i = j
    /\ \A e \in observable \cup Range(its) :
          cs[e].index = Detached <=> e \notin Range(its)

\* C16: in every state, and inside done_delete once the removal loop is
\* through, each entry is in at most one slot of the list and is Detached if
\* and only if it is not in the list; the expect() and the unreachable!() of
\* the renumbering loop never fire
C16_ListInvariant ==
    /\ well_formed(items, cells)
    /\ (status = "ok" /\ ~tx.open) =>
          \A indices \in Batches :
              LET removed == remove_loop(items, cells, indices) IN
              removed.fault = "none" => well_formed(removed.items, removed.cells)
    /\ last.fault # "expect"

\* the cells as they were when the last operation began: a commit changes
\* nothing of a cell but its origin
began == [e \in DOMAIN pre.index |-> [cells[e] EXCEPT !.index = pre.index[e]]]

\* C17: in a commit, with no view outstanding, on a list whose entries
\* reported their positions, if the removal loop completes then for every
\* surviving entry total_less is at most the entry's index, so the
\* subtraction in the renumbering loop does not underflow
C17_NoUnderflow ==
    (last.op \in Commits /\ ~last.views /\ pre_ordered) =>
        LET removed == remove_loop(pre.items, began, last.indices) IN
        removed.fault = "none" =>
            /\ \A e \in Range(removed.items) :
                  take_while_count(last.indices, removed.cells[e].index.v)
                      <= removed.cells[e].index.v
            /\ last.fault # "overflow"
            /\ \A e \in Range(items) : cells[e].index.v >= 0

\* every queued index is in bounds of the list at the moment it is removed,
\* for a list of n entries
RECURSIVE removals_in_bounds(_, _)
removals_in_bounds(n, indices) ==
    \/ indices = <<>>
    \/ Head(indices) < n /\ removals_in_bounds(n - 1, Tail(indices))

\* C18: a commit (done, delete or delete_one, even of an empty batch) faults
\* if and only if a view is outstanding on an entry of the list at commit
\* time or a queued index is out of bounds when it is removed; with neither,
\* no aliasing fault is raised
C18_FaultIffViewOrBounds ==
    last.op \in Commits =>
        LET in_bounds == removals_in_bounds(Len(pre.items), last.indices) IN
        /\ last.fault # "none" <=> (last.lent \/ ~in_bounds)
        /\ (~last.lent /\ in_bounds) => last.fault # "borrow"
=============================================================================
